---- MODULE Spec2Model ----
(***************************************************************************)
(* Model of the two Ansible modules of the iLO collection:                 *)
(*   plugins/modules/set_service_bios_attributes.py  (BIOS service module) *)
(*   plugins/modules/ilo_redfish_config.py           (Manager commands)    *)
(* Each module is one sequential invocation; the steps of an invocation    *)
(* are cut where the controller answers a request, because the answer is   *)
(* an input of the program.                                                *)
(***************************************************************************)
EXTENDS FiniteSets, Integers, Sequences, TLC

\* ------------------------------------------------------------------ bounds
MaxRuns == 2          \* invocations of the BIOS module against one controller
MaxCmds == 3          \* longest command list given to the Manager module

\* ------------------------------------------------------- input value sets
AttrNames == {"BootMode", "Sriov"}      \* attribute names a caller or controller may use
AttrValues == {"On", "Off"}             \* attribute values
Statuses == {200, 404, 500}             \* HTTP statuses the controller may answer

\* ------------------------------------------------------------- dictionaries
\* A Python dict is a function whose DOMAIN is its key set.
EmptyDict == [k \in {} |-> "On"]
Dicts == UNION {[K -> AttrValues] : K \in SUBSET AttrNames}
Restrict(d, K) == [k \in K |-> d[k]]

\* ------------------------------------------------------------------- URIs
\* A URI is the sequence of the string pieces the code concatenates.
base_uri == <<"/redfish/v1/">>
system_uri == <<"systems/1/">>
SystemUri == base_uri \o system_uri
BiosUri == SystemUri \o <<"bios/">>     \* the "@odata.id" the controller advertises
PrimaryUri(bios_uri) == bios_uri \o <<"service/settings/">>
FallbackUri(bios_uri) == bios_uri \o <<"oem/hpe/service/settings/">>
NoUri == <<>>

VARIABLES
    \* --- controller (the environment of the BIOS module)
    system_body,          \* body of GET /redfish/v1/systems/1/
    settings_body,        \* body of the service settings resource
    \* --- one invocation of set_service_bios_attributes.py
    b_pc,                 \* position of main()
    run,                  \* number of the invocation
    service_attributes,   \* module.params["service_attributes"]
    session,              \* "none", "in" (after login), "out" (after logout)
    requests,             \* requests issued by this invocation, in order
    service_uri,          \* local of set_service_bios_attributes
    server_service_bios,  \* local of set_service_bios_attributes
    b_result,             \* how the invocation ended
    prev,                 \* record of the previous invocation
    \* --- one invocation of ilo_redfish_config.py
    m_pc,                 \* position of main()
    command_list,         \* module.params['command']
    idx,                  \* position of the for loop in command_list
    result,               \* the local "result" of main()
    calls,                \* rf_utils calls made and what each returned, in order
    m_result              \* how the invocation ended

bvars == <<system_body, settings_body, b_pc, run, service_attributes, session,
           requests, service_uri, server_service_bios, b_result, prev>>
mvars == <<m_pc, command_list, idx, result, calls, m_result>>
vars == <<system_body, settings_body, b_pc, run, service_attributes, session,
          requests, service_uri, server_service_bios, b_result, prev,
          m_pc, command_list, idx, result, calls, m_result>>

\* ------------------------------------------------------- results of a run
\* exit_json / fail_json end the process (SystemExit); an exception that
\* nothing catches ends it with a traceback and no result record.
NoText == "-"
Msg(text, method, uri, status, response, attrs) ==
    [text |-> text, method |-> method, uri |-> uri, status |-> status,
     response |-> response, attrs |-> attrs]
Running == [kind |-> "running", changed |-> FALSE,
            msg |-> Msg(NoText, NoText, NoUri, 0, NoText, EmptyDict)]
ExitJson(changed, msg) == [kind |-> "exit", changed |-> changed, msg |-> msg]
FailJson(msg) == [kind |-> "fail", changed |-> FALSE, msg |-> msg]
Unhandled(exc) == [kind |-> "unhandled", changed |-> FALSE,
                   msg |-> Msg(exc, NoText, NoUri, 0, NoText, EmptyDict)]

\* ----------------------------------------------------- controller bodies
\* The text of a response is modelled by the JSON document it carries.
SystemBodies == {[hasBios |-> TRUE, odata_id |-> BiosUri],
                 [hasBios |-> FALSE, odata_id |-> NoUri]}
SettingsBodies == {[hasAttributes |-> TRUE, Attributes |-> d] : d \in Dicts}
                  \cup {[hasAttributes |-> FALSE, Attributes |-> EmptyDict]}
NoBody == [hasAttributes |-> FALSE, Attributes |-> EmptyDict]
ErrorText(status) == <<"error", status>>
Request(method, uri, status, body) ==
    [method |-> method, uri |-> uri, status |-> status, body |-> body]

\* ------------------------------------------ set_service_bios_attributes.py
\* error_msg(module, method, uri, status, response)
error_msg(method, uri, status, response) ==
    FailJson(Msg("Failed", method, uri, status, response, EmptyDict))

\* set_service_bios_attributes, line 204: "Bios" in server_details
HasBiosKey_Always(server_details) == TRUE
HasBiosKey(server_details) == server_details.hasBios

\* set_service_bios_attributes, line 222: the PATCH response is not 200
PatchFailed_Only5xx(status) == status >= 500
PatchFailed(status) == status # 200

\* set_service_bios_attributes, line 220: the URI the PATCH is sent to is the
\* service_uri that get_service_bios_attributes returned
PatchTarget_Primary(uri, bios_uri) == PrimaryUri(bios_uri)
PatchTarget(uri, bios_uri) == uri

\* get_service_bios_attributes, line 185: the service API is not supported
NeedsFallback_AnyError(status) == status # 200
NeedsFallback_Never(status) == FALSE
NeedsFallback(status) == status = 404

\* validate_input_attributes: the names the loop moves into attrs_bad
AttrsBad_FirstOnly(service_bios, attributes) ==
    LET bad == {k \in DOMAIN attributes : k \notin DOMAIN service_bios.Attributes}
    IN  Restrict(attributes, IF bad = {} THEN {} ELSE {CHOOSE k \in bad : TRUE})
AttrsBad(service_bios, attributes) ==
    Restrict(attributes,
             {k \in DOMAIN attributes : k \notin DOMAIN service_bios.Attributes})

\* validate_input_attributes: what is left of the copy attrs_to_patch after the loop
AttrsToPatch_KeepEqual(service_bios, attributes) ==
    Restrict(attributes,
             {k \in DOMAIN attributes : k \in DOMAIN service_bios.Attributes})
AttrsToPatch(service_bios, attributes) ==
    Restrict(attributes,
             {k \in DOMAIN attributes :
                 /\ k \in DOMAIN service_bios.Attributes
                 /\ service_bios.Attributes[k] # attributes[k]})

\* validate_input_attributes: the way it ends; "return" when it returns to the caller
validate_input_attributes(service_bios, attributes) ==
    IF DOMAIN attributes # {} /\ ~service_bios.hasAttributes
    THEN Unhandled("KeyError: 'Attributes'")
    ELSE IF DOMAIN AttrsBad(service_bios, attributes) # {}
    THEN FailJson(Msg("Incorrect attributes", NoText, NoUri, 0, NoText,
                      AttrsBad(service_bios, attributes)))
    ELSE IF DOMAIN AttrsToPatch(service_bios, attributes) = {}
    THEN ExitJson(FALSE, Msg("Service BIOS attributes already set",
                             NoText, NoUri, 0, NoText, EmptyDict))
    ELSE Running

\* set_service_bios_attributes: body = {"Attributes": service_attributes}
PatchBody_Empty(attributes, attrs_to_patch) == EmptyDict
PatchBody(attributes, attrs_to_patch) == attributes

\* the controller applies the Attributes of a PATCH that it answers with 200
ApplyPatch(body, attributes) ==
    [body EXCEPT !.Attributes =
        [k \in DOMAIN body.Attributes \cup DOMAIN attributes |->
            IF k \in DOMAIN attributes THEN attributes[k] ELSE body.Attributes[k]]]

\* ------------------------------------------------------ ilo_redfish_config.py
CATEGORY_COMMANDS_ALL ==
    [Manager |-> <<"SetTimeZone", "SetDNSserver", "SetDomainName", "SetNTPServers", "SetWINSReg">>]
Range(s) == {s[i] : i \in DOMAIN s}
\* names a caller may put in the command list: the allowed ones and two others
CommandNames == Range(CATEGORY_COMMANDS_ALL["Manager"]) \cup {"Bogus", "Reset"}
CommandLists == UNION {[1..n -> CommandNames] : n \in 0..MaxCmds}

\* main(), lines 165-171: the dispatch table
dispatch_Swapped ==
    [SetTimeZone |-> "set_dns_server", SetDNSserver |-> "set_time_zone",
     SetDomainName |-> "set_domain_name", SetNTPServers |-> "set_ntp_server",
     SetWINSReg |-> "set_wins_registration"]
dispatch ==
    [SetTimeZone |-> "set_time_zone", SetDNSserver |-> "set_dns_server",
     SetDomainName |-> "set_domain_name", SetNTPServers |-> "set_ntp_server",
     SetWINSReg |-> "set_wins_registration"]

\* main(), lines 153-154: the commands that are not allowed for the category
Offending_FirstOnly(cmds, category) ==
    LET bad == SelectSeq(cmds, LAMBDA cmd : cmd \notin Range(CATEGORY_COMMANDS_ALL[category]))
    IN  IF bad = <<>> THEN <<>> ELSE <<bad[1]>>
Offending(cmds, category) ==
    SelectSeq(cmds, LAMBDA cmd : cmd \notin Range(CATEGORY_COMMANDS_ALL[category]))

\* what a routine of iLORedfishUtils may return for the i-th command of the list;
\* the message names the call it comes from
RoutineOutcomes == {"modified", "already set", "failed"}
RoutineResult(i, routine, outcome) ==
    [empty |-> FALSE, ret |-> outcome # "failed", changed |-> outcome = "modified",
     msg |-> <<i, routine, outcome>>]
\* what _find_managers_resource may return
ResourceResults ==
    {[empty |-> FALSE, ret |-> TRUE, changed |-> FALSE, msg |-> <<>>],
     [empty |-> FALSE, ret |-> FALSE, changed |-> FALSE,
      msg |-> <<0, "_find_managers_resource", "not found">>]}
\* an entry of the call history: the routine called and what it returned
Call(routine, returned) == [routine |-> routine, returned |-> returned]
EmptyResult == [empty |-> TRUE, ret |-> FALSE, changed |-> FALSE, msg |-> <<>>]   \* result = {}

MgrMsg(text, offending, allowed, msg) ==
    [text |-> text, offending |-> offending, allowed |-> allowed, msg |-> msg]
MgrRunning == [kind |-> "running", changed |-> FALSE, msg |-> MgrMsg(NoText, <<>>, <<>>, <<>>)]

\* main(), line 162: resource['ret'] of the manager resource lookup
ResourceFound_Always(resource) == TRUE
ResourceFound(resource) == resource.ret

\* main(), line 174: the assignment of the loop body
LoopResult_KeepFailure(old, new) == IF ~old.empty /\ ~old.ret THEN old ELSE new
LoopResult(old, new) == new

\* main(), lines 176-180: the report after the loop
Report(res) ==
    IF res.empty
    THEN [kind |-> "unhandled", changed |-> FALSE,
          msg |-> MgrMsg("KeyError: 'ret'", <<>>, <<>>, <<>>)]
    ELSE IF res.ret
    THEN [kind |-> "exit", changed |-> res.changed, msg |-> MgrMsg("result", <<>>, <<>>, res.msg)]
    ELSE [kind |-> "fail", changed |-> FALSE, msg |-> MgrMsg("result", <<>>, <<>>, res.msg)]

InitMgrVars ==
    /\ m_pc = "main"
    /\ command_list = <<>>
    /\ idx = 1
    /\ result = EmptyResult
    /\ calls = <<>>
    /\ m_result = MgrRunning

Init ==
    /\ system_body \in SystemBodies
    /\ settings_body \in SettingsBodies
    /\ b_pc = "main"
    /\ run = 1
    /\ service_attributes \in Dicts
    /\ session = "none"
    /\ requests = <<>>
    /\ service_uri = NoUri
    /\ server_service_bios = NoBody
    /\ b_result = Running
    /\ prev = [ran |-> FALSE, service_attributes |-> EmptyDict,
               requests |-> <<>>, server_service_bios |-> NoBody,
               b_result |-> Running]
    /\ InitMgrVars

\* main(), lines 229-252: the redfish import check, then login()
Main(has_redfish) ==
    /\ b_pc = "main"
    /\ IF has_redfish
       THEN /\ session' = "in"
            /\ b_pc' = "get_system"
            /\ b_result' = b_result
       ELSE /\ session' = session
            /\ b_pc' = "done"
            /\ b_result' = FailJson(Msg("Failed to import the required Python library (redfish)",
                                        NoText, NoUri, 0, NoText, EmptyDict))
    /\ UNCHANGED <<system_body, settings_body, run, service_attributes, requests,
                   service_uri, server_service_bios, prev>>
    /\ UNCHANGED mvars

\* set_service_bios_attributes, lines 198-209: GET of the system resource
GetSystem(status) ==
    /\ b_pc = "get_system"
    /\ requests' = Append(requests,
                          Request("GET", SystemUri, status,
                                  IF status = 200 THEN system_body ELSE ErrorText(status)))
    /\ IF status # 200
       THEN /\ b_result' = error_msg("GET", SystemUri, status, ErrorText(status))
            /\ b_pc' = "done"
       ELSE IF ~HasBiosKey(system_body)
       THEN /\ b_result' = FailJson(Msg("Getting BIOS URI Failed, Key 'Bios' not found",
                                        NoText, SystemUri, 0, system_body, EmptyDict))
            /\ b_pc' = "done"
       ELSE /\ b_result' = b_result
            /\ b_pc' = "get_primary"
    /\ UNCHANGED <<system_body, settings_body, run, service_attributes, session,
                   service_uri, server_service_bios, prev>>
    /\ UNCHANGED mvars

\* lines 190-193 and 216: the status check of get_service_bios_attributes on the
\* last response, then validate_input_attributes on the body that was read
CheckAndValidate(uri, status) ==
    /\ service_uri' = uri
    /\ IF status # 200
       THEN /\ b_result' = error_msg("GET", uri, status, ErrorText(status))
            /\ b_pc' = "done"
            /\ server_service_bios' = server_service_bios
       ELSE /\ server_service_bios' = settings_body
            /\ b_result' = validate_input_attributes(settings_body, service_attributes)
            /\ b_pc' = IF validate_input_attributes(settings_body, service_attributes) = Running
                       THEN "patch" ELSE "done"

\* get_service_bios_attributes, lines 182-186: GET on <bios>service/settings/
GetPrimary(status) ==
    /\ b_pc = "get_primary"
    /\ requests' = Append(requests,
                          Request("GET", PrimaryUri(system_body.odata_id), status,
                                  IF status = 200 THEN settings_body ELSE ErrorText(status)))
    /\ IF NeedsFallback(status)
       THEN /\ service_uri' = FallbackUri(system_body.odata_id)
            /\ b_pc' = "get_fallback"
            /\ UNCHANGED <<server_service_bios, b_result>>
       ELSE CheckAndValidate(PrimaryUri(system_body.odata_id), status)
    /\ UNCHANGED <<system_body, settings_body, run, service_attributes, session, prev>>
    /\ UNCHANGED mvars

\* get_service_bios_attributes, lines 187-188: GET on <bios>oem/hpe/service/settings/
GetFallback(status) ==
    /\ b_pc = "get_fallback"
    /\ requests' = Append(requests,
                          Request("GET", service_uri, status,
                                  IF status = 200 THEN settings_body ELSE ErrorText(status)))
    /\ CheckAndValidate(service_uri, status)
    /\ UNCHANGED <<system_body, settings_body, run, service_attributes, session, prev>>
    /\ UNCHANGED mvars

\* set_service_bios_attributes, lines 218-226, then main(), lines 255-258
Patch(status) ==
    /\ b_pc = "patch"
    /\ requests' = Append(requests,
                          Request("PATCH", PatchTarget(service_uri, system_body.odata_id), status,
                                  PatchBody(service_attributes,
                                            AttrsToPatch(server_service_bios, service_attributes))))
    /\ IF PatchFailed(status)
       THEN /\ b_result' = FailJson(Msg("Applying Service BIOS attributes Failed",
                                        NoText, service_uri, status, ErrorText(status), EmptyDict))
            /\ UNCHANGED <<settings_body, session>>
       ELSE /\ settings_body' = ApplyPatch(settings_body,
                                           PatchBody(service_attributes,
                                                     AttrsToPatch(server_service_bios, service_attributes)))
            /\ session' = "out"
            /\ b_result' = ExitJson(TRUE, Msg("Service BIOS settings applied. System Reset required.",
                                              NoText, NoUri, 0, NoText, EmptyDict))
    /\ b_pc' = "done"
    /\ UNCHANGED <<system_body, run, service_attributes, service_uri, server_service_bios, prev>>
    /\ UNCHANGED mvars

\* the playbook runs the module again against the same controller
NextRun(attributes) ==
    /\ b_pc = "done"
    /\ run < MaxRuns
    /\ run' = run + 1
    /\ prev' = [ran |-> TRUE, service_attributes |-> service_attributes,
                requests |-> requests, server_service_bios |-> server_service_bios,
                b_result |-> b_result]
    /\ service_attributes' = attributes
    /\ b_pc' = "main"
    /\ session' = "none"
    /\ requests' = <<>>
    /\ service_uri' = NoUri
    /\ server_service_bios' = NoBody
    /\ b_result' = Running
    /\ UNCHANGED <<system_body, settings_body>>
    /\ UNCHANGED mvars

BiosNext ==
    \/ \E has_redfish \in BOOLEAN : Main(has_redfish)
    \/ \E status \in Statuses : GetSystem(status)
    \/ \E status \in Statuses : GetPrimary(status)
    \/ \E status \in Statuses : GetFallback(status)
    \/ \E status \in Statuses : Patch(status)
    \/ \E attributes \in Dicts : NextRun(attributes)

SpecBios == Init /\ [][BiosNext]_vars

\* ======================================================================
\* Properties of set_service_bios_attributes.py, checked under SpecBios
\* ======================================================================
\* positions in a request log
Patches(reqs) == {i \in DOMAIN reqs : reqs[i].method = "PATCH"}
SettingsGets(reqs) == {i \in DOMAIN reqs : reqs[i].method = "GET" /\ reqs[i].uri # SystemUri}
PrimaryPath == <<"/redfish/v1/", "systems/1/", "bios/", "service/settings/">>
FallbackPath == <<"/redfish/v1/", "systems/1/", "bios/", "oem/hpe/service/settings/">>
\* the service settings were read: a GET on a settings path was answered with 200
SettingsRead(reqs) == \E i \in SettingsGets(reqs) : reqs[i].status = 200
\* the body of that answer
CurrentBody(reqs) == reqs[CHOOSE i \in SettingsGets(reqs) : reqs[i].status = 200].body
\* requested names the controller does not have, requested names whose value differs
AbsentKeys(body, attributes) == {k \in DOMAIN attributes : k \notin DOMAIN body.Attributes}
DifferingKeys(body, attributes) ==
    {k \in DOMAIN attributes : k \in DOMAIN body.Attributes /\ body.Attributes[k] # attributes[k]}
IsText(res, kind, text) == res.kind = kind /\ res.msg.text = text

\* C1: whenever a PATCH is issued, the Attributes of its body are exactly the
\* requested attributes whose current value on the controller differs from the
\* requested value: a subset of service_attributes without any key whose
\* current value already equals the desired value.
C1_PatchBodyIsDiff ==
    \A i \in Patches(requests) :
        /\ DOMAIN requests[i].body \subseteq DOMAIN service_attributes
        /\ DOMAIN requests[i].body = DifferingKeys(server_service_bios, service_attributes)
        /\ \A k \in DOMAIN requests[i].body : requests[i].body[k] = service_attributes[k]

\* C2: once login() has been called, every way the invocation ends is preceded
\* by logout(): no terminated invocation leaves the session logged in.
C2_LogoutOnEveryExit ==
    (b_pc = "done" /\ session # "none") => session = "out"

\* C7: after the current attributes were read, the invocation fails with
\* 'Incorrect attributes' if and only if some key of service_attributes is absent
\* from the current Attributes; the failure lists exactly the absent keys with
\* their requested values, and no PATCH is issued.
C7_IncorrectAttributes ==
    (SettingsRead(requests) /\ CurrentBody(requests).hasAttributes) =>
        /\ IsText(b_result, "fail", "Incorrect attributes")
              <=> AbsentKeys(CurrentBody(requests), service_attributes) # {}
        /\ IsText(b_result, "fail", "Incorrect attributes") =>
              /\ DOMAIN b_result.msg.attrs = AbsentKeys(CurrentBody(requests), service_attributes)
              /\ \A k \in DOMAIN b_result.msg.attrs :
                     b_result.msg.attrs[k] = service_attributes[k]
              /\ Patches(requests) = {}
              /\ b_pc = "done"
\* one requested name is absent, the other is present with a differing value
C7_Witness ==
    /\ IsText(b_result, "fail", "Incorrect attributes")
    /\ Cardinality(DOMAIN b_result.msg.attrs) = 1
    /\ DifferingKeys(server_service_bios, service_attributes) # {}
    /\ b_pc = "done"

\* C8: when the GET on the primary path returns 404, the fallback path is
\* requested exactly once; if that GET is not 200 the invocation fails with an
\* error that reports the fallback URI and the fallback status.
C8_FallbackOnce ==
    \A i \in DOMAIN requests :
        ( /\ requests[i].method = "GET"
          /\ requests[i].uri = PrimaryPath
          /\ requests[i].status = 404
          /\ b_pc # "get_fallback" ) =>
            /\ Cardinality({j \in SettingsGets(requests) : requests[j].uri = FallbackPath}) = 1
            /\ Cardinality({j \in SettingsGets(requests) : requests[j].uri = PrimaryPath}) = 1
            /\ i + 1 \in DOMAIN requests
            /\ requests[i + 1].method = "GET"
            /\ requests[i + 1].uri = FallbackPath
            /\ requests[i + 1].status # 200 =>
                  /\ b_pc = "done"
                  /\ IsText(b_result, "fail", "Failed")
                  /\ b_result.msg.method = "GET"
                  /\ b_result.msg.uri = FallbackPath
                  /\ b_result.msg.status = requests[i + 1].status
                  /\ b_result.msg.response = requests[i + 1].body
                  /\ Len(requests) = i + 1
C8_Witness ==
    /\ b_pc = "done"
    /\ Len(requests) = 3
    /\ requests[2].uri = PrimaryPath /\ requests[2].status = 404
    /\ requests[3].uri = FallbackPath /\ requests[3].status = 500
    /\ b_result.msg.status = 500

\* C9: against a controller that applies every successful PATCH, with all
\* requested names valid and at least one value differing, a run whose requests
\* are answered reports changed=true after one PATCH, and a second run with the
\* same service_attributes whose requests are answered reports changed=false
\* and issues no PATCH.
FirstRunCase(reqs, body, attributes) ==
    /\ SettingsRead(reqs)
    /\ body.hasAttributes
    /\ AbsentKeys(body, attributes) = {}
    /\ DifferingKeys(body, attributes) # {}
C9_Idempotence ==
    /\ (b_pc = "done" /\ FirstRunCase(requests, server_service_bios, service_attributes)) =>
          /\ Cardinality(Patches(requests)) = 1
          /\ requests[Len(requests)].method = "PATCH"
          /\ requests[Len(requests)].status = 200 =>
                b_result.kind = "exit" /\ b_result.changed
    /\ ( /\ prev.ran
         /\ FirstRunCase(prev.requests, prev.server_service_bios, prev.service_attributes)
         /\ prev.requests[Len(prev.requests)].status = 200
         /\ service_attributes = prev.service_attributes
         /\ b_pc = "done"
         /\ SettingsRead(requests) ) =>
          /\ prev.b_result.kind = "exit" /\ prev.b_result.changed
          /\ b_result.kind = "exit" /\ ~b_result.changed
          /\ Patches(requests) = {}
C9_Witness ==
    /\ prev.ran
    /\ prev.b_result.kind = "exit" /\ prev.b_result.changed
    /\ service_attributes = prev.service_attributes
    /\ Cardinality(DOMAIN service_attributes) = 2
    /\ Cardinality(DifferingKeys(prev.server_service_bios, service_attributes)) = 1
    /\ b_pc = "done"
    /\ b_result.kind = "exit" /\ ~b_result.changed

\* C10: when every requested attribute exists and already has the requested
\* value (also when service_attributes is empty), the invocation ends as a
\* success with changed=false and 'Service BIOS attributes already set', and no
\* PATCH is issued.
C10_AlreadySet ==
    ( /\ SettingsRead(requests)
      /\ \A k \in DOMAIN service_attributes :
            /\ CurrentBody(requests).hasAttributes
            /\ k \in DOMAIN CurrentBody(requests).Attributes
            /\ CurrentBody(requests).Attributes[k] = service_attributes[k] ) =>
        /\ b_pc = "done"
        /\ IsText(b_result, "exit", "Service BIOS attributes already set")
        /\ ~b_result.changed
        /\ Patches(requests) = {}
C10_Witness ==
    /\ b_pc = "done"
    /\ SettingsRead(requests)
    /\ Cardinality(DOMAIN service_attributes) = 2
    /\ \A k \in DOMAIN service_attributes :
          /\ k \in DOMAIN server_service_bios.Attributes
          /\ server_service_bios.Attributes[k] = service_attributes[k]
    /\ IsText(b_result, "exit", "Service BIOS attributes already set")

\* C11: when the service settings response is 200 but has no 'Attributes' key,
\* the current attribute set is treated as the empty mapping: a non-empty
\* service_attributes ends in the 'Incorrect attributes' failure listing every
\* requested name, and the invocation never ends in an unhandled error.
C11_MissingAttributesIsEmpty ==
    /\ b_result.kind # "unhandled"
    /\ ( /\ SettingsRead(requests)
         /\ ~CurrentBody(requests).hasAttributes
         /\ DOMAIN service_attributes # {} ) =>
          /\ b_pc = "done"
          /\ IsText(b_result, "fail", "Incorrect attributes")
          /\ DOMAIN b_result.msg.attrs = DOMAIN service_attributes

\* C12: when the GET on the system resource returns 200 but the body has no
\* 'Bios' key, the invocation fails with a message that names the key 'Bios'
\* and includes the response body, and no further GET and no PATCH is issued.
C12_MissingBiosKey ==
    ( /\ requests # <<>>
      /\ requests[1].status = 200
      /\ ~requests[1].body.hasBios ) =>
        /\ requests[1].method = "GET" /\ requests[1].uri = SystemUri
        /\ b_pc = "done"
        /\ IsText(b_result, "fail", "Getting BIOS URI Failed, Key 'Bios' not found")
        /\ b_result.msg.uri = requests[1].uri
        /\ b_result.msg.response = requests[1].body
        /\ Len(requests) = 1
C12_Witness ==
    /\ b_pc = "done"
    /\ Len(requests) = 1
    /\ requests[1].status = 200
    /\ ~requests[1].body.hasBios
    /\ b_result.kind = "fail"
    /\ session = "in"

\* C13: changed=true with the 'System Reset required' advisory is reported only
\* if exactly one PATCH was issued and it returned 200; a PATCH with any other
\* status ends the invocation as a failure whose message carries the status,
\* the response body and the URI.
C13_ChangedOnlyAfterPatch200 ==
    /\ (b_result.kind = "exit" /\ b_result.changed) =>
          /\ Cardinality(Patches(requests)) = 1
          /\ \A i \in Patches(requests) : requests[i].status = 200
          /\ b_result.msg.text = "Service BIOS settings applied. System Reset required."
    /\ b_result.msg.text = "Service BIOS settings applied. System Reset required." =>
          b_result.kind = "exit" /\ b_result.changed
    /\ \A i \in Patches(requests) :
          requests[i].status # 200 =>
              /\ b_pc = "done"
              /\ i = Len(requests)
              /\ IsText(b_result, "fail", "Applying Service BIOS attributes Failed")
              /\ b_result.msg.status = requests[i].status
              /\ b_result.msg.response = <<"error", requests[i].status>>
              /\ b_result.msg.uri = requests[i].uri
C13_Witness ==
    /\ b_pc = "done"
    /\ Cardinality(Patches(requests)) = 1
    /\ requests[Len(requests)].method = "PATCH"
    /\ requests[Len(requests)].status = 404
    /\ b_result.kind = "fail"
    /\ b_result.msg.status = 404

\* C16: the PATCH is sent to the URI whose GET returned the attribute set that
\* was validated: the primary URI when the primary GET returned 200, the OEM
\* fallback URI when the primary returned 404 and the fallback returned 200; a
\* PATCH never targets a URI whose GET did not return 200 in this invocation.
C16_PatchTargetsReadUri ==
    \A i \in Patches(requests) :
        /\ i - 1 \in SettingsGets(requests)
        /\ requests[i - 1].status = 200
        /\ requests[i - 1].uri = requests[i].uri
        /\ requests[i - 1].body = server_service_bios
        /\ \A j \in SettingsGets(requests) :
              requests[j].uri = requests[i].uri => requests[j].status = 200
        /\ (\E j \in SettingsGets(requests) :
              requests[j].uri = PrimaryPath /\ requests[j].status = 200)
              => requests[i].uri = PrimaryPath
        /\ (\E j \in SettingsGets(requests) :
              requests[j].uri = PrimaryPath /\ requests[j].status = 404)
              => requests[i].uri = FallbackPath
C16_Witness ==
    /\ Len(requests) = 4
    /\ requests[2].uri = PrimaryPath /\ requests[2].status = 404
    /\ requests[3].uri = FallbackPath /\ requests[3].status = 200
    /\ requests[4].method = "PATCH" /\ requests[4].uri = FallbackPath
    /\ requests[4].status = 200

\* C17: the fallback path is requested only when the primary GET returned 404:
\* for any other non-200 primary status the invocation fails at once with an
\* error reporting the primary URI and its status, and neither a fallback GET
\* nor a PATCH is issued.
C17_FallbackOnlyOn404 ==
    /\ \A j \in SettingsGets(requests) :
          requests[j].uri = FallbackPath =>
              /\ j - 1 \in SettingsGets(requests)
              /\ requests[j - 1].uri = PrimaryPath
              /\ requests[j - 1].status = 404
    /\ \A i \in SettingsGets(requests) :
          (requests[i].uri = PrimaryPath /\ requests[i].status \notin {200, 404}) =>
              /\ b_pc = "done"
              /\ i = Len(requests)
              /\ IsText(b_result, "fail", "Failed")
              /\ b_result.msg.method = "GET"
              /\ b_result.msg.uri = PrimaryPath
              /\ b_result.msg.status = requests[i].status
              /\ {j \in SettingsGets(requests) : requests[j].uri = FallbackPath} = {}
              /\ Patches(requests) = {}
C17_Witness ==
    /\ b_pc = "done"
    /\ Len(requests) = 2
    /\ requests[2].uri = PrimaryPath /\ requests[2].status = 500
    /\ b_result.kind = "fail"
    /\ b_result.msg.status = 500
    /\ b_result.msg.uri = PrimaryPath

\* ------------------------------------------------ ilo_redfish_config.main()
\* the Manager module runs on its own; the BIOS module's variables stay put
InitMgr ==
    /\ system_body = [hasBios |-> TRUE, odata_id |-> BiosUri]
    /\ settings_body = NoBody
    /\ b_pc = "main"
    /\ run = 1
    /\ service_attributes = EmptyDict
    /\ session = "none"
    /\ requests = <<>>
    /\ service_uri = NoUri
    /\ server_service_bios = NoBody
    /\ b_result = Running
    /\ prev = [ran |-> FALSE, service_attributes |-> EmptyDict,
               requests |-> <<>>, server_service_bios |-> NoBody,
               b_result |-> Running]
    /\ InitMgrVars

\* main(), lines 139-158: the parameters are read, the command list is validated
MgrMain(cmds) ==
    /\ m_pc = "main"
    /\ command_list' = cmds
    /\ IF Offending(cmds, "Manager") # <<>>
       THEN /\ m_result' = [kind |-> "fail", changed |-> FALSE,
                            msg |-> MgrMsg("Invalid Command(s)", Offending(cmds, "Manager"),
                                           CATEGORY_COMMANDS_ALL["Manager"], <<>>)]
            /\ m_pc' = "done"
       ELSE /\ m_result' = m_result
            /\ m_pc' = "find"
    /\ UNCHANGED <<idx, result, calls>>
    /\ UNCHANGED bvars

\* main(), lines 161-163: the manager resource lookup; with an empty command
\* list the loop has no iteration and lines 176-180 follow at once
FindManagers(resource) ==
    /\ m_pc = "find"
    /\ calls' = Append(calls, Call("_find_managers_resource", resource))
    /\ IF ~ResourceFound(resource)
       THEN /\ m_result' = [kind |-> "fail", changed |-> FALSE,
                            msg |-> MgrMsg("result", <<>>, <<>>, resource.msg)]
            /\ m_pc' = "done"
       ELSE IF command_list = <<>>
       THEN /\ m_result' = Report(result)
            /\ m_pc' = "done"
       ELSE /\ m_result' = m_result
            /\ m_pc' = "loop"
    /\ UNCHANGED <<command_list, idx, result>>
    /\ UNCHANGED bvars

\* main(), lines 173-174: one iteration of the loop; after the last one,
\* lines 176-180 report
Dispatch(outcome) ==
    /\ m_pc = "loop"
    /\ calls' = Append(calls, Call(dispatch[command_list[idx]],
                                   RoutineResult(idx, dispatch[command_list[idx]], outcome)))
    /\ result' = LoopResult(result, RoutineResult(idx, dispatch[command_list[idx]], outcome))
    /\ IF idx = Len(command_list)
       THEN /\ m_result' = Report(LoopResult(result,
                                            RoutineResult(idx, dispatch[command_list[idx]], outcome)))
            /\ m_pc' = "done"
            /\ idx' = idx
       ELSE /\ m_result' = m_result
            /\ m_pc' = "loop"
            /\ idx' = idx + 1
    /\ UNCHANGED command_list
    /\ UNCHANGED bvars

MgrNext ==
    \/ \E cmds \in CommandLists : MgrMain(cmds)
    \/ \E resource \in ResourceResults : FindManagers(resource)
    \/ \E outcome \in RoutineOutcomes : Dispatch(outcome)

SpecMgr == InitMgr /\ [][MgrNext]_vars

\* ======================================================================
\* Properties of ilo_redfish_config.py, checked under SpecMgr
\* ======================================================================
Allowed == {"SetTimeZone", "SetDNSserver", "SetDomainName", "SetNTPServers", "SetWINSReg"}
\* positions of the call history that are operation routines
RoutineCalls == {i \in DOMAIN calls : calls[i].routine # "_find_managers_resource"}
AllValid == \A i \in DOMAIN command_list : command_list[i] \in Allowed
ManagerFound ==
    /\ calls # <<>>
    /\ calls[1].routine = "_find_managers_resource"
    /\ calls[1].returned.ret

\* C3: for a list of valid commands, once the routine of one command returns a
\* failure result, the routines of the later commands are not executed.
C3_FailureAbortsRest ==
    \A i \in RoutineCalls : ~calls[i].returned.ret => i = Len(calls)

\* C4: if at least one name of the command list is not in the allow-list, the
\* module fails with 'Invalid Command(s)', listing every offending name and the
\* full allowed set, and neither the manager lookup nor any routine is executed.
C4_InvalidCommands ==
    (m_pc # "main" /\ ~AllValid) =>
        /\ m_pc = "done"
        /\ m_result.kind = "fail"
        /\ m_result.msg.text = "Invalid Command(s)"
        /\ Range(m_result.msg.offending) = Range(command_list) \ Allowed
        /\ Range(m_result.msg.allowed) = Allowed
        /\ Len(m_result.msg.allowed) = 5
        /\ calls = <<>>
C4_Witness ==
    /\ m_pc = "done"
    /\ Range(command_list) = {"SetTimeZone", "Bogus", "Reset"}
    /\ m_result.kind = "fail"
    /\ Len(m_result.msg.offending) = 2

\* C5: if an executed routine returns a failure result, the invocation reports
\* failure with that operation's message; the failure of an earlier command is
\* never hidden by the success of a later command.
C5_FailureNotHidden ==
    m_pc = "done" =>
        \A i \in RoutineCalls :
            ~calls[i].returned.ret =>
                /\ m_result.kind = "fail"
                /\ m_result.msg.msg = calls[i].returned.msg

\* C6: when all commands are valid and the manager resource is found, the
\* reported outcome is exactly that of the result returned by the routine of the
\* last command of the list, whatever the earlier commands returned.
C6_LastResultReported ==
    (m_pc = "done" /\ AllValid /\ ManagerFound /\ command_list # <<>>) =>
        LET last == calls[Len(calls)]
        IN  /\ Len(calls) = Len(command_list) + 1
            /\ last.routine = dispatch[command_list[Len(command_list)]]
            /\ last.returned.msg[1] = Len(command_list)
            /\ m_result.msg.msg = last.returned.msg
            /\ m_result.msg.text = "result"
            /\ IF last.returned.ret
               THEN m_result.kind = "exit" /\ m_result.changed = last.returned.changed
               ELSE m_result.kind = "fail"
\* the first command failed, the last one succeeded, success is reported
C6_Witness ==
    /\ m_pc = "done"
    /\ Len(command_list) = 3
    /\ Len(calls) = 4
    /\ ~calls[2].returned.ret
    /\ calls[4].returned.ret /\ calls[4].returned.changed
    /\ m_result.kind = "exit" /\ m_result.changed

\* C14: when all commands are valid and the manager resource is found, the
\* operation routines are invoked in exactly the order of the command list,
\* one invocation per list entry, and no routine that the list does not name.
RoutineOf(cmd) ==
    CASE cmd = "SetTimeZone" -> "set_time_zone"
      [] cmd = "SetDNSserver" -> "set_dns_server"
      [] cmd = "SetDomainName" -> "set_domain_name"
      [] cmd = "SetNTPServers" -> "set_ntp_server"
      [] cmd = "SetWINSReg" -> "set_wins_registration"
C14_RoutinesInListOrder ==
    (AllValid /\ ManagerFound) =>
        /\ Len(calls) - 1 <= Len(command_list)
        /\ RoutineCalls = 2..Len(calls)
        /\ \A i \in 1..(Len(calls) - 1) :
              /\ calls[i + 1].routine = RoutineOf(command_list[i])
              /\ calls[i + 1].returned.msg[1] = i
        /\ m_pc = "done" => Len(calls) - 1 = Len(command_list)
\* three different commands ran, time zone last
C14_Witness ==
    /\ m_pc = "done"
    /\ command_list = <<"SetNTPServers", "SetDNSserver", "SetTimeZone">>
    /\ Len(calls) = 4
    /\ calls[2].routine = "set_ntp_server"
    /\ calls[3].routine = "set_dns_server"
    /\ calls[4].routine = "set_time_zone"

\* C15: every invocation whose command list passes the allow-list validation,
\* the empty list included, ends by reporting a success record with changed and
\* msg or a failure with msg; it never ends in an unhandled error.
C15_AlwaysReports ==
    (m_pc = "done" /\ AllValid) => m_result.kind \in {"exit", "fail"}

\* C18: when the manager resource lookup returns a failure result, the module
\* fails with the lookup's message and no operation routine is invoked.
C18_LookupFailure ==
    ( /\ calls # <<>>
      /\ calls[1].routine = "_find_managers_resource"
      /\ ~calls[1].returned.ret ) =>
        /\ m_pc = "done"
        /\ m_result.kind = "fail"
        /\ m_result.msg.msg = calls[1].returned.msg
        /\ RoutineCalls = {}
        /\ Len(calls) = 1
C18_Witness ==
    /\ m_pc = "done"
    /\ Len(command_list) = 2
    /\ AllValid
    /\ Len(calls) = 1
    /\ ~calls[1].returned.ret
    /\ m_result.kind = "fail"
    /\ m_result.msg.msg = <<0, "_find_managers_resource", "not found">>
====
